---------------------------- MODULE Spec2Model ----------------------------
(***************************************************************************)
(* Model of swisscom_ai/research_keyphrase/preprocessing/postagging.py.    *)
(*                                                                         *)
(* Strings are sequences of one-character strings, so that strip, slicing, *)
(* substring tests, concatenation and joins are computed, not assumed.     *)
(*                                                                         *)
(* Spec       the walk of PosTaggingKonlpy.convert_dot, one loop iteration *)
(*            per step, followed by PosTaggingKonlpy.sent_tokenize.        *)
(* SpecTagger construction of one of the three taggers, then calls of its  *)
(*            pos_tag_raw_text.                                            *)
(* SpecFiles  construction, then pos_tag_file and                          *)
(*            pos_tag_and_write_corpora on a small file system.            *)
(***************************************************************************)
EXTENDS Naturals, Sequences, FiniteSets

VARIABLES
    \* ---- convert_dot / sent_tokenize (Spec) ----
    doc,                \* the text given to convert_dot
    tag,                \* self.tag, the terminal marker (or None)
    tagged,             \* what self.tagger.pos(doc) returned (never changed)
    pos_tag_document,   \* the queue, popped from the front
    pos_tag_word,       \* the current token (unbound before the first pop)
    change_token,
    continuos_word,     \* the pending buffer
    replace_document,   \* the output buffer
    synthetic,          \* per character of replace_document: was it injected
    idx,                \* characters of doc the for loop has taken
    pc,                 \* "loop", "returned", "raised", "done"
    sentences,          \* what sent_tokenize returned
    \* ---- the taggers and the PosTagging operations (SpecTagger) ----
    self,               \* the instance: class, attributes set, their values
    status,             \* "new", "ready" (constructed), "failed" (raised)
    ctor,               \* the arguments of the construction
    fs,                 \* the file system: path -> text, or NoFile
    call,               \* the latest operation and its arguments
    result,             \* what it returned or raised
    engine_in,          \* the texts it passed to the engine, in order
    list_of_path,       \* pos_tag_and_write_corpora: its arguments,
    suffix,
    cursor,             \*   the paths visited so far,
    existed,            \*   what os.path.isfile said of each,
    written,            \*   the files written,
    warned,             \*   the warnings emitted
    ops                 \* file operations started on the instance

dotvars == <<doc, tag, tagged, pos_tag_document, pos_tag_word, change_token,
             continuos_word, replace_document, synthetic, idx, pc,
             sentences>>

taggervars == <<self, status, ctor, fs, call, result, engine_in,
                list_of_path, suffix, cursor, existed, written, warned, ops>>

vars == <<dotvars, taggervars>>

-----------------------------------------------------------------------------
(* Bounds of the model.                                                    *)
MaxDoc == 3        \* characters of the text convert_dot walks
MaxLen == 4        \* characters of a text given to pos_tag_raw_text
MaxTok == 2        \* tokens of the queue convert_dot is given
MaxFile == 1       \* characters of a file that exists at the start
MaxPaths == 2      \* paths of a corpus listing
MaxOps == 1        \* file operations started on one instance

-----------------------------------------------------------------------------
(* Strings.                                                                *)
Chars == {"a", ".", " "}
Whitespace == {" ", "\n"}
\* None, as a value no string equals.
None == <<"None">>
\* pos_tag_word before the first pop.
Unbound == <<None, None>>

SeqsUpTo(S, n) == UNION {[1..k -> S] : k \in 0..n}

RECURSIVE lstrip(_)
lstrip(s) ==
    IF s # <<>> /\ Head(s) \in Whitespace THEN lstrip(Tail(s)) ELSE s

RECURSIVE rstrip(_)
rstrip(s) ==
    IF s # <<>> /\ s[Len(s)] \in Whitespace
    THEN rstrip(SubSeq(s, 1, Len(s) - 1)) ELSE s

\* str.strip()
strip(s) == lstrip(rstrip(s))

\* sub in s, for strings
Contains(sub, s) ==
    \E k \in 1..(Len(s) + 1) :
        /\ k + Len(sub) - 1 <= Len(s)
        /\ SubSeq(s, k, k + Len(sub) - 1) = sub

\* s[:-1]
ButLast(s) == IF s = <<>> THEN <<>> ELSE SubSeq(s, 1, Len(s) - 1)

\* sep.join(parts)
RECURSIVE Join(_, _)
Join(parts, sep) ==
    IF parts = <<>> THEN <<>>
    ELSE IF Len(parts) = 1 THEN parts[1]
    ELSE parts[1] \o sep \o Join(Tail(parts), sep)

Dot == <<".">>
DotSpace == <<".", " ">>
ENDSENT == <<"[", "E", "N", "D", "S", "E", "N", "T", "]">>

-----------------------------------------------------------------------------
(* convert_dot.                                                            *)

\* continuos_word.strip() == pos_tag_word[0]
Matches(buf, word) == strip(buf) = word[1]

\* self.tag in pos_tag_word[1] raises TypeError when self.tag is None
TagTestRaises(marker) == marker = None

\* '. ' if self.tag in pos_tag_word[1] and continuos_word[:-1] != '.' else ''
Delimiter(marker, word, buf) ==
    IF Contains(marker, word[2]) /\ ButLast(buf) # Dot THEN DotSpace ELSE <<>>

\* pop(-1) in place of pop(0).
PoppedFromBack(change, word, queue) ==
    IF change
    THEN <<queue[Len(queue)], SubSeq(queue, 1, Len(queue) - 1)>>
    ELSE <<word, queue>>

\* if change_token: pos_tag_word = pos_tag_document.pop(0)
\* The token the iteration works on, and the queue it leaves.
Popped(change, word, queue) ==
    IF change THEN <<Head(queue), Tail(queue)>> ELSE <<word, queue>>

\* The body of `for char in doc`, past the break test: the token, the queue,
\* the buffer with char appended, whether it matched, whether the delimiter
\* test raised, and the delimiter appended after the buffer.
LoopBody(marker, word0, queue0, change, buf0, char) ==
    LET p     == Popped(change, word0, queue0)
        buf   == Append(buf0, char)
        match == Matches(buf, p[1])
    IN  [word   |-> p[1],
         queue  |-> p[2],
         buf    |-> buf,
         match  |-> match,
         raises |-> match /\ TagTestRaises(marker),
         delim  |-> IF match /\ ~TagTestRaises(marker)
                    THEN Delimiter(marker, p[1], buf) ELSE <<>>]

\* The loop of convert_dot from the state (word, queue, change, buf, out)
\* over the characters d still to read.
RECURSIVE Walk(_, _, _, _, _, _, _)
Walk(marker, d, word, queue, change, buf, out) ==
    IF d = <<>> \/ Len(queue) < 1
    THEN [raised |-> FALSE, out |-> out]
    ELSE LET b == LoopBody(marker, word, queue, change, buf, Head(d))
         IN  IF b.raises THEN [raised |-> TRUE, out |-> out]
             ELSE IF b.match
             THEN Walk(marker, Tail(d), b.word, b.queue, TRUE, <<>>,
                       out \o b.buf \o b.delim)
             ELSE Walk(marker, Tail(d), b.word, b.queue, FALSE, b.buf, out)

\* convert_dot(doc), given what self.tagger.pos(doc) returned.
convert_dot(marker, d, toks) == Walk(marker, d, Unbound, toks, TRUE, <<>>, <<>>)

-----------------------------------------------------------------------------
(* sent_tokenize.                                                          *)

\* The first index k of s with s[k] = "." followed by whitespace and then by
\* another token, or 0: where a punctuation-based splitter ends a sentence.
SentBreak(s) ==
    LET B == {k \in 1..(Len(s) - 1) :
                 /\ s[k] = "."
                 /\ s[k + 1] \in Whitespace
                 /\ lstrip(SubSeq(s, k + 1, Len(s))) # <<>>}
    IN  IF B = {} THEN 0 ELSE CHOOSE k \in B : \A j \in B : k <= j

\* nltk.sent_tokenize: the sentences of s, the next one starting at the
\* first token after a break, the last one without its trailing whitespace,
\* an empty one never returned.
RECURSIVE st(_)
st(s) ==
    LET k == SentBreak(s)
    IN  IF k = 0
        THEN IF rstrip(s) = <<>> THEN <<>> ELSE <<rstrip(s)>>
        ELSE <<SubSeq(s, 1, k)>> \o st(lstrip(SubSeq(s, k + 1, Len(s))))

\* lambda x: x != '.'
KeepSentence(x) == x # Dot

\* list(filter(lambda x: x != '.', st(_doc)))
FilterSentences(sents) == SelectSeq(sents, KeepSentence)

-----------------------------------------------------------------------------
(* The tagging engines.  They are collaborators of the module, handed to   *)
(* it or loaded by it; the model gives all of them one deterministic       *)
(* stand-in: words and single dots are the tokens, a dot is tagged SF, a   *)
(* word directly before a dot EF, any other word NN.                       *)

NN == <<"N", "N">>
EF == <<"E", "F">>
SF == <<"S", "F">>

RECURSIVE WordLen(_)
WordLen(s) ==
    IF s = <<>> \/ Head(s) \in Whitespace \/ Head(s) = "." THEN 0
    ELSE 1 + WordLen(Tail(s))

\* self.tagger.pos(text): the flat token/tag stream of text.
RECURSIVE EnginePos(_)
EnginePos(s) ==
    LET r == lstrip(s)
    IN  IF r = <<>> THEN <<>>
        ELSE IF Head(r) = "." THEN <<<<Dot, SF>>>> \o EnginePos(Tail(r))
        ELSE LET n    == WordLen(r)
                 rest == SubSeq(r, n + 1, Len(r))
                 t    == IF rest # <<>> /\ Head(rest) = "." THEN EF ELSE NN
             IN  <<<<SubSeq(r, 1, n), t>>>> \o EnginePos(rest)

\* [self.tagger.pos(sent) for sent in sents]
TagEach(sents) == [k \in 1..Len(sents) |-> EnginePos(sents[k])]

\* A segmenting engine: the sentences of text, each tagged.
EngineSents(text) == TagEach(st(text))

-----------------------------------------------------------------------------
(* The output encodings.                                                   *)

\* nltk.tag.util.tuple2str(tagged_token, sep)
tuple2str(tagged_token, sep) == tagged_token[1] \o sep \o tagged_token[2]

\* ' '.join([tuple2str(tagged_token, sep) for tagged_token in sent])
FlatSentence(sent, sep) ==
    Join([k \in 1..Len(sent) |-> tuple2str(sent[k], sep)], <<" ">>)

\* '[ENDSENT]'.join([... for sent in tagged_text])
Flat(tagged_text, sep) ==
    Join([k \in 1..Len(tagged_text) |-> FlatSentence(tagged_text[k], sep)],
         ENDSENT)

\* re.sub('[ ]+', ' ', text)
RECURSIVE CollapseSpaces(_)
CollapseSpaces(s) ==
    IF Len(s) < 2 THEN s
    ELSE IF s[1] = " " /\ s[2] = " " THEN CollapseSpaces(Tail(s))
    ELSE <<s[1]>> \o CollapseSpaces(Tail(s))

\* re.sub('[ ]+', ' ', text), the .strip() left out.
NormalizeWithoutStrip(text) == CollapseSpaces(text)

\* re.sub('[ ]+', ' ', text).strip()
Normalize(text) == strip(CollapseSpaces(text))

-----------------------------------------------------------------------------
(* pos_tag_raw_text of the three classes: what it returns or raises, and   *)
(* the texts it hands to the engine.                                       *)

Returned(tuples, flat, engine) ==
    [kind |-> "value", tuples |-> tuples, flat |-> flat, exc |-> "",
     engine |-> engine]

ReturnedNothing(engine) ==
    [kind |-> "none", tuples |-> <<>>, flat |-> <<>>, exc |-> "",
     engine |-> engine]

Raised(exc, engine) ==
    [kind |-> "raised", tuples |-> <<>>, flat |-> <<>>, exc |-> exc,
     engine |-> engine]

\* The return of pos_tag_raw_text: the structured tagged_text, or its
\* flat encoding with sep.
Encoded(tagged_text, sep, as_tuple_list, engine) ==
    IF as_tuple_list THEN Returned(tagged_text, <<>>, engine)
    ELSE Returned(<<>>, Flat(tagged_text, sep), engine)

\* PosTaggingStanford.pos_tag_raw_text
StanfordRawText(slf, text, as_tuple_list) ==
    Encoded(EngineSents(text), slf.separator, as_tuple_list, <<text>>)

\* doc = self.nlp(text) and what follows it, text being normalized already.
SpacyTagged(slf, text, as_tuple_list) ==
    IF "nlp" \notin slf.attrs THEN Raised("AttributeError", <<>>)
    ELSE Encoded(EngineSents(text), <<"|">>, as_tuple_list, <<text>>)

\* PosTaggingSpacy.pos_tag_raw_text
SpacyRawText(slf, text, as_tuple_list) ==
    SpacyTagged(slf, Normalize(text), as_tuple_list)

\* st(_doc) and the filter, _doc being what convert_dot returned or raised.
SplitConverted(cd) ==
    [raised |-> cd.raised,
     sents  |-> IF cd.raised THEN <<>> ELSE FilterSentences(st(cd.out))]

\* PosTaggingKonlpy.sent_tokenize
KonlpySentTokenize(slf, text) ==
    SplitConverted(convert_dot(slf.tag, text, EnginePos(text)))

\* The return of PosTaggingKonlpy.pos_tag_raw_text; self.seperator is no
\* attribute of the instance, and is read once a sentence has a token to
\* render.
KonlpyEncoded(tagged_text, as_tuple_list, engine) ==
    IF as_tuple_list THEN Returned(tagged_text, <<>>, engine)
    ELSE IF \E k \in 1..Len(tagged_text) : tagged_text[k] # <<>>
    THEN Raised("AttributeError", engine)
    ELSE Returned(<<>>, Flat(tagged_text, <<>>), engine)

\* PosTaggingKonlpy.pos_tag_raw_text, s being what sent_tokenize returned
\* or raised.
KonlpyTagged(text, s, as_tuple_list) ==
    IF s.raised THEN Raised("TypeError", <<text>>)
    ELSE KonlpyEncoded(TagEach(s.sents), as_tuple_list, <<text>> \o s.sents)

\* PosTaggingKonlpy.pos_tag_raw_text
KonlpyRawText(slf, text, as_tuple_list) ==
    KonlpyTagged(text, KonlpySentTokenize(slf, text), as_tuple_list)

\* self.pos_tag_raw_text(text, as_tuple_list)
PosTagRawTextOf(slf, text, as_tuple_list) ==
    IF slf.cls = "Stanford" THEN StanfordRawText(slf, text, as_tuple_list)
    ELSE IF slf.cls = "Spacy" THEN SpacyRawText(slf, text, as_tuple_list)
    ELSE KonlpyRawText(slf, text, as_tuple_list)

-----------------------------------------------------------------------------
(* Files.                                                                  *)

NoFile == <<"NoFile">>
BasePaths == {<<"f">>, <<"g">>}
Suffixes == {<<>>, <<"s">>}
AllPaths == {p \o x : p \in BasePaths, x \in Suffixes}

\* os.path.isfile(path)
isfile(fsys, path) == path \in DOMAIN fsys /\ fsys[path] # NoFile

\* fileIO.read_file(input_path)
read_file(fsys, path) == fsys[path]

\* fileIO.write_string(s, output_path)
write_string(fsys, s, path) == [fsys EXCEPT ![path] = s]

\* What pos_tag_file does with tagged_text, the flat encoding or the
\* exception of pos_tag_raw_text: write it to output_path and return nothing.
WriteTagged(fsys, t, output_path) ==
    IF t.kind = "raised" THEN [r |-> t, fs |-> fsys]
    ELSE [r  |-> ReturnedNothing(t.engine),
          fs |-> write_string(fsys, t.flat, output_path)]

\* pos_tag_file past read_file.
TagFileText(slf, fsys, original_text, output_path) ==
    IF output_path # None
    THEN WriteTagged(fsys, PosTagRawTextOf(slf, original_text, FALSE),
                     output_path)
    ELSE [r |-> PosTagRawTextOf(slf, original_text, TRUE), fs |-> fsys]

\* PosTagging.pos_tag_file: what it returns or raises, and the file system
\* it leaves.
PosTagFileOf(slf, fsys, input_path, output_path) ==
    IF ~isfile(fsys, input_path)
    THEN [r |-> Raised("FileNotFoundError", <<>>), fs |-> fsys]
    ELSE TagFileText(slf, fsys, read_file(fsys, input_path), output_path)

-----------------------------------------------------------------------------
(* Spec: the walk of convert_dot, then sent_tokenize.                      *)

\* The token surfaces a tagger may return: words, dots and mixtures.
Surfaces == {<<"a">>, <<".">>, <<"a", "a">>, <<"a", ".">>, <<".", "a">>,
             <<".", ".">>}
Tags == {EF, SF}
Markers == {EF, <<"F">>, None}
Tokens == Surfaces \X Tags

Marks(n, b) == [k \in 1..n |-> b]

NoSelf == [cls |-> "", attrs |-> {}, separator |-> None, tag |-> None]
NoCtor == [cls |-> "", lang |-> "", engine |-> ""]
NoCall == [op |-> "", running |-> FALSE, text |-> <<>>, as_tuple_list |-> FALSE,
           input_path |-> <<>>, output_path |-> <<>>]
NoResult == ReturnedNothing(<<>>)

TaggerIdle ==
    /\ self = NoSelf
    /\ status = "new"
    /\ ctor = NoCtor
    /\ call = NoCall
    /\ result = NoResult
    /\ engine_in = <<>>
    /\ list_of_path = <<>>
    /\ suffix = <<>>
    /\ cursor = 0
    /\ existed = <<>>
    /\ written = <<>>
    /\ warned = <<>>
    /\ ops = 0

Init ==
    /\ doc \in SeqsUpTo(Chars, MaxDoc)
    /\ tag \in Markers
    /\ tagged \in SeqsUpTo(Tokens, MaxTok)
    /\ pos_tag_document = tagged
    /\ pos_tag_word = Unbound
    /\ change_token = TRUE
    /\ continuos_word = <<>>
    /\ replace_document = <<>>
    /\ synthetic = <<>>
    /\ idx = 0
    /\ pc = "loop"
    /\ sentences = <<>>
    /\ TaggerIdle
    /\ fs = [p \in AllPaths |-> NoFile]

\* One iteration of `for char in doc` that does not break.
Iterate ==
    /\ pc = "loop"
    /\ idx < Len(doc)
    /\ Len(pos_tag_document) >= 1
    /\ LET b == LoopBody(tag, pos_tag_word, pos_tag_document, change_token,
                         continuos_word, doc[idx + 1])
       IN  /\ idx' = idx + 1
           /\ pos_tag_word' = b.word
           /\ pos_tag_document' = b.queue
           /\ change_token' = (b.match /\ ~b.raises)
           /\ continuos_word' = IF b.match /\ ~b.raises THEN <<>> ELSE b.buf
           /\ pc' = IF b.raises THEN "raised" ELSE "loop"
           /\ IF b.match /\ ~b.raises
              THEN /\ replace_document' = replace_document \o b.buf \o b.delim
                   /\ synthetic' = synthetic \o Marks(Len(b.buf), FALSE)
                                             \o Marks(Len(b.delim), TRUE)
              ELSE UNCHANGED <<replace_document, synthetic>>
    /\ UNCHANGED <<doc, tag, tagged, sentences, taggervars>>

\* if len(pos_tag_document) < 1: break
Break ==
    /\ pc = "loop"
    /\ idx < Len(doc)
    /\ Len(pos_tag_document) < 1
    /\ pc' = "returned"
    /\ UNCHANGED <<doc, tag, tagged, pos_tag_document, pos_tag_word,
                   change_token, continuos_word, replace_document, synthetic,
                   idx, sentences, taggervars>>

\* The for loop runs out of characters; return replace_document.
Exhaust ==
    /\ pc = "loop"
    /\ idx = Len(doc)
    /\ pc' = "returned"
    /\ UNCHANGED <<doc, tag, tagged, pos_tag_document, pos_tag_word,
                   change_token, continuos_word, replace_document, synthetic,
                   idx, sentences, taggervars>>

\* sent_tokenize, after convert_dot has returned _doc.
SentTokenize ==
    /\ pc = "returned"
    /\ sentences' = FilterSentences(st(replace_document))
    /\ pc' = "done"
    /\ UNCHANGED <<doc, tag, tagged, pos_tag_document, pos_tag_word,
                   change_token, continuos_word, replace_document, synthetic,
                   idx, taggervars>>

Next == Iterate \/ Break \/ Exhaust \/ SentTokenize

Spec == Init /\ [][Next]_vars

-----------------------------------------------------------------------------
(* SpecTagger and SpecFiles: construction, then operations on the          *)
(* instance.                                                               *)

Langs == {"en", "de", "fr", "kr"}
Separators == {<<"|">>, <<"_">>}
FileTexts == SeqsUpTo(Chars, MaxFile) \cup {NoFile}

DotIdle ==
    /\ doc = <<>>
    /\ tag = None
    /\ tagged = <<>>
    /\ pos_tag_document = <<>>
    /\ pos_tag_word = Unbound
    /\ change_token = TRUE
    /\ continuos_word = <<>>
    /\ replace_document = <<>>
    /\ synthetic = <<>>
    /\ idx = 0
    /\ pc = "idle"
    /\ sentences = <<>>

\* No instance yet, no file.
TaggerInit ==
    /\ DotIdle
    /\ TaggerIdle
    /\ fs = [p \in AllPaths |-> NoFile]

\* No instance yet; each base path is a file of some text, or missing.
FilesInit ==
    /\ DotIdle
    /\ TaggerIdle
    /\ \E c \in [BasePaths -> FileTexts] :
          fs = [p \in AllPaths |-> IF p \in BasePaths THEN c[p] ELSE NoFile]

CallVars == <<call, result, engine_in, list_of_path, suffix, cursor, existed,
              written, warned, ops>>

\* PosTaggingStanford.__init__(jar_path, model_path_directory, separator,
\* lang); resources says which of the punkt pickle and the tagger model load.
ConstructStanford(separator, lang, resources) ==
    /\ status = "new"
    /\ ctor' = [cls |-> "Stanford", lang |-> lang,
                engine |-> IF resources = "all" THEN "loaded" ELSE "unavailable"]
    /\ IF lang \in {"en", "de", "fr"}
       THEN IF resources = "all"
            THEN /\ self' = [cls |-> "Stanford",
                             attrs |-> {"sent_tokenizer", "tagger", "separator"},
                             separator |-> separator, tag |-> None]
                 /\ status' = "ready"
            ELSE /\ self' = [cls |-> "Stanford",
                             attrs |-> IF resources = "no_model"
                                       THEN {"sent_tokenizer"} ELSE {},
                             separator |-> None, tag |-> None]
                 /\ status' = "failed"
       ELSE /\ self' = [cls |-> "Stanford", attrs |-> {}, separator |-> None,
                        tag |-> None]
            /\ status' = "failed"
    /\ UNCHANGED <<dotvars, fs, CallVars>>

\* PosTaggingSpacy.__init__(nlp, lang); given: an nlp object was passed.
ConstructSpacy(given, lang) ==
    /\ status = "new"
    /\ ctor' = [cls |-> "Spacy", lang |-> lang,
                engine |-> IF given THEN "given" ELSE "unavailable"]
    /\ self' = [cls |-> "Spacy", attrs |-> IF given THEN {"nlp"} ELSE {},
                separator |-> None, tag |-> None]
    /\ status' = "ready"
    /\ UNCHANGED <<dotvars, fs, CallVars>>

\* PosTaggingKonlpy.__init__(tagger, tag, separator, lang); given: a tagger
\* was passed; mecab: konlpy's Mecab can be imported and built.
ConstructKonlpy(given, mecab, marker, separator, lang) ==
    /\ status = "new"
    /\ ctor' = [cls |-> "Konlpy", lang |-> lang,
                engine |-> IF given THEN "given"
                           ELSE IF mecab THEN "loaded" ELSE "unavailable"]
    /\ IF ~given /\ ~mecab
       THEN /\ self' = [cls |-> "Konlpy", attrs |-> {}, separator |-> None,
                        tag |-> None]
            /\ status' = "failed"
       ELSE /\ self' = [cls |-> "Konlpy",
                        attrs |-> {"tagger", "tag", "lang", "separator"},
                        separator |-> separator, tag |-> marker]
            /\ status' = "ready"
    /\ UNCHANGED <<dotvars, fs, CallVars>>

Construct ==
    \/ \E x \in Separators, l \in Langs, r \in {"all", "no_punkt", "no_model"} :
          ConstructStanford(x, l, r)
    \/ \E g \in BOOLEAN, l \in Langs : ConstructSpacy(g, l)
    \/ \E g \in BOOLEAN, m \in BOOLEAN, t \in Markers, x \in Separators,
          l \in Langs : ConstructKonlpy(g, m, t, x, l)

\* The instance is constructed and no file operation is running on it.
CanCall ==
    /\ status = "ready"
    /\ ~call.running
    /\ ops < MaxOps

\* r is what the operation returned or raised.
Returns(r) ==
    /\ result' = r
    /\ engine_in' = r.engine

\* self.pos_tag_raw_text(text, as_tuple_list)
PosTagRawText(text, as_tuple_list) ==
    /\ status = "ready"
    /\ call = NoCall
    /\ Returns(PosTagRawTextOf(self, text, as_tuple_list))
    /\ call' = [NoCall EXCEPT !.op = "pos_tag_raw_text", !.text = text,
                              !.as_tuple_list = as_tuple_list]
    /\ UNCHANGED <<dotvars, self, status, ctor, fs, list_of_path, suffix,
                   cursor, existed, written, warned, ops>>

\* The caller has taken what pos_tag_raw_text returned or raised; the
\* instance is as it was before the call.
Return ==
    /\ call.op = "pos_tag_raw_text"
    /\ call' = NoCall
    /\ result' = NoResult
    /\ engine_in' = <<>>
    /\ UNCHANGED <<dotvars, self, status, ctor, fs, list_of_path, suffix,
                   cursor, existed, written, warned, ops>>

\* r is what pos_tag_file returned or raised, and the file system it left.
FileReturns(r) ==
    /\ Returns(r.r)
    /\ fs' = r.fs

\* self.pos_tag_file(input_path, output_path)
PosTagFile(input_path, output_path) ==
    /\ CanCall
    /\ FileReturns(PosTagFileOf(self, fs, input_path, output_path))
    /\ call' = [NoCall EXCEPT !.op = "pos_tag_file",
                              !.input_path = input_path,
                              !.output_path = output_path]
    /\ ops' = ops + 1
    /\ UNCHANGED <<dotvars, self, status, ctor, list_of_path, suffix, cursor,
                   existed, written, warned>>

\* self.pos_tag_and_write_corpora(paths, sfx) is entered.
CorporaEnter(paths, sfx) ==
    /\ CanCall
    /\ call' = [NoCall EXCEPT !.op = "pos_tag_and_write_corpora",
                              !.running = TRUE]
    /\ list_of_path' = paths
    /\ suffix' = sfx
    /\ cursor' = 0
    /\ existed' = <<>>
    /\ written' = <<>>
    /\ warned' = <<>>
    /\ result' = NoResult
    /\ engine_in' = <<>>
    /\ ops' = ops + 1
    /\ UNCHANGED <<dotvars, self, status, ctor, fs>>

\* self.pos_tag_file(path, output_file_path) inside the loop: r is what it
\* returned or raised; an exception ends the loop and the operation.
CorporaTagged(r, output_file_path) ==
    /\ fs' = r.fs
    /\ engine_in' = engine_in \o r.r.engine
    /\ IF r.r.kind = "raised"
       THEN /\ result' = r.r
            /\ call' = [call EXCEPT !.running = FALSE]
            /\ UNCHANGED written
       ELSE /\ written' = Append(written, output_file_path)
            /\ UNCHANGED <<result, call>>
    /\ UNCHANGED warned

\* The body of the loop for path.
CorporaVisit(path, output_file_path) ==
    /\ existed' = Append(existed, isfile(fs, path))
    /\ IF isfile(fs, path)
       THEN CorporaTagged(PosTagFileOf(self, fs, path, output_file_path),
                          output_file_path)
       ELSE /\ warned' = Append(warned, output_file_path)
            /\ UNCHANGED <<fs, engine_in, written, result, call>>

\* One iteration of `for path in list_of_path`.
CorporaStep ==
    /\ call.op = "pos_tag_and_write_corpora"
    /\ call.running
    /\ cursor < Len(list_of_path)
    /\ cursor' = cursor + 1
    /\ CorporaVisit(list_of_path[cursor + 1],
                    list_of_path[cursor + 1] \o suffix)
    /\ UNCHANGED <<dotvars, self, status, ctor, list_of_path, suffix, ops>>

\* The loop is over; pos_tag_and_write_corpora returns.
CorporaReturn ==
    /\ call.op = "pos_tag_and_write_corpora"
    /\ call.running
    /\ cursor = Len(list_of_path)
    /\ call' = [call EXCEPT !.running = FALSE]
    /\ UNCHANGED <<dotvars, self, status, ctor, fs, result, engine_in,
                   list_of_path, suffix, cursor, existed, written, warned, ops>>

TaggerNext ==
    \/ Construct
    \/ \E t \in SeqsUpTo(Chars, MaxLen), b \in BOOLEAN : PosTagRawText(t, b)
    \/ Return

SpecTagger == TaggerInit /\ [][TaggerNext]_vars

FilesNext ==
    \/ Construct
    \/ \E i \in BasePaths, o \in AllPaths \cup {None} : PosTagFile(i, o)
    \/ \E l \in SeqsUpTo(BasePaths, MaxPaths), x \in Suffixes : CorporaEnter(l, x)
    \/ CorporaStep
    \/ CorporaReturn

SpecFiles == FilesInit /\ [][FilesNext]_vars

-----------------------------------------------------------------------------
(* Properties of convert_dot and sent_tokenize, checked under Spec.        *)

\* The characters of s that m marks b.
RECURSIVE Marked(_, _, _)
Marked(s, m, b) ==
    IF s = <<>> THEN <<>>
    ELSE (IF Head(m) = b THEN <<Head(s)>> ELSE <<>>)
             \o Marked(Tail(s), Tail(m), b)

\* The output with the injected delimiters removed.
RealOutput == Marked(replace_document, synthetic, FALSE)

\* The pending buffer once the next character is appended to it.
NextBuffer == Append(continuos_word, doc[idx + 1])

\* This step is an iteration in which the buffer matched the current token
\* and the delimiter test did not raise.
MatchStep ==
    /\ pc = "loop"
    /\ pc' = "loop"
    /\ idx' = idx + 1
    /\ strip(NextBuffer) = pos_tag_word'[1]

\* The token queue covers the text: its surfaces, in order, separated only
\* by whitespace of the text, are the text.
RECURSIVE Covers(_, _)
Covers(q, d) ==
    IF q = <<>> THEN strip(d) = <<>>
    ELSE LET r == lstrip(d)
             w == Head(q)[1]
         IN  /\ Len(w) <= Len(r)
             /\ SubSeq(r, 1, Len(w)) = w
             /\ Covers(Tail(q), SubSeq(r, Len(w) + 1, Len(r)))

\* A whitespace-normalized text: trimmed, and no two spaces in a row.
IsNormalized(d) ==
    /\ strip(d) = d
    /\ \A k \in 1..(Len(d) - 1) : ~(d[k] = " " /\ d[k + 1] = " ")

\* C1: a matched pending buffer that is exactly "." is copied to the output
\* without a synthetic delimiter, whatever the tag of its token.
C1_LoneDotGetsNoDelimiter ==
    [][(MatchStep /\ NextBuffer = Dot)
          => replace_document' = replace_document \o NextBuffer]_vars

\* C2: when the token queue covers a normalized text, the returned output
\* with the injected delimiters removed is the text, last token included.
C2_OutputReproducesText ==
    (pc = "returned" /\ IsNormalized(doc) /\ Covers(tagged, doc))
        => RealOutput = doc

\* C9: on every match the delimiter is appended directly after the token's
\* characters iff the token's own tag contains the marker and the matched
\* buffer is not solely "."; the pending buffer is reset either way.
C9_DelimiterIffTerminalAndNotDot ==
    [][MatchStep =>
          /\ continuos_word' = <<>>
          /\ replace_document' =
                replace_document \o NextBuffer \o
                    (IF Contains(tag, pos_tag_word'[2]) /\ NextBuffer # Dot
                     THEN DotSpace ELSE <<>>)]_vars

\* C10: the walk never backtracks: the output without the injected
\* delimiters, followed by the pending buffer, is the prefix of the text
\* read so far; tokens leave the queue in queue order; the walk takes at
\* most len(text) steps and stops early only on an exhausted queue.
C10_NeverBacktracks ==
    LET k == Len(tagged) - Len(pos_tag_document)
    IN  /\ idx <= Len(doc)
        /\ RealOutput \o continuos_word = SubSeq(doc, 1, idx)
        /\ k >= 0
        /\ pos_tag_document = SubSeq(tagged, k + 1, Len(tagged))
        /\ pos_tag_word = (IF k = 0 THEN Unbound ELSE tagged[k])
        /\ (pc \in {"returned", "done"} /\ idx < Len(doc))
               => pos_tag_document = <<>>

\* A walk that stopped early on an exhausted queue, after injecting a
\* delimiter and with characters still pending.
C10_Witness ==
    /\ pc = "returned"
    /\ idx < Len(doc)
    /\ TRUE \in {synthetic[k] : k \in 1..Len(synthetic)}
    /\ continuos_word # <<>>
    /\ Len(tagged) = MaxTok

\* The text is n >= 1 sentences, each a word whose tag contains the marker
\* followed directly by a "." token, the sentences one space apart.
RECURSIVE SentencesText(_)
SentencesText(q) ==
    IF q = <<>> THEN <<>>
    ELSE q[1][1] \o q[2][1]
           \o (IF Len(q) > 2 THEN <<" ">> ELSE <<>>)
           \o SentencesText(SubSeq(q, 3, Len(q)))

IsTerminalSentences ==
    /\ tag # None
    /\ Len(tagged) >= 2
    /\ Len(tagged) % 2 = 0
    /\ \A j \in 1..Len(tagged) :
          IF j % 2 = 1
          THEN /\ ~Contains(Dot, tagged[j][1])
               /\ Contains(tag, tagged[j][2])
          ELSE tagged[j][1] = Dot
    /\ doc = SentencesText(tagged)

\* C6: such a text of n sentences is split into exactly n sentences, none
\* of them solely the injected delimiter.
C6_OneSentencePerTerminal ==
    (pc = "done" /\ IsTerminalSentences)
        => /\ Len(sentences) = Len(tagged) \div 2
           /\ \A k \in 1..Len(sentences) :
                 strip(sentences[k]) # Dot

-----------------------------------------------------------------------------
(* Properties of the taggers, checked under SpecTagger (C4, C5, C8) and    *)
(* SpecFiles (C3, C7).                                                     *)

\* The words of s: its maximal runs of characters that are not whitespace.
RECURSIVE Words(_)
Words(s) ==
    LET r == lstrip(s)
    IN  IF r = <<>> THEN <<>>
        ELSE LET n == CHOOSE n \in 1..Len(r) :
                          /\ \A k \in 1..n : r[k] \notin Whitespace
                          /\ n = Len(r) \/ r[n + 1] \in Whitespace
             IN  <<SubSeq(r, 1, n)>> \o Words(SubSeq(r, n + 1, Len(r)))

\* e is the whitespace-normalized form of t.
IsNormalizationOf(t, e) == IsNormalized(e) /\ Words(e) = Words(t)

\* The separator the instance was configured with, "|" by default.
ConfiguredSeparator ==
    IF "separator" \in self.attrs THEN self.separator ELSE <<"|">>

\* text<SEP>tag for each token, the tokens of a sentence one space apart,
\* the sentences joined by [ENDSENT].
RECURSIVE RenderSentence(_, _)
RenderSentence(sent, sep) ==
    IF sent = <<>> THEN <<>>
    ELSE sent[1][1] \o sep \o sent[1][2]
           \o (IF Len(sent) > 1 THEN <<" ">> ELSE <<>>)
           \o RenderSentence(Tail(sent), sep)

RECURSIVE Render(_, _)
Render(document, sep) ==
    IF document = <<>> THEN <<>>
    ELSE RenderSentence(document[1], sep)
           \o (IF Len(document) > 1 THEN ENDSENT ELSE <<>>)
           \o Render(Tail(document), sep)

\* The attribute that holds the engine of each class.
EngineAttrs ==
    IF self.cls = "Stanford" THEN {"sent_tokenizer", "tagger"}
    ELSE IF self.cls = "Spacy" THEN {"nlp"}
    ELSE {"tagger"}

\* The instance has its engine, and a Konlpy instance its terminal marker.
Configured ==
    /\ EngineAttrs \subseteq self.attrs
    /\ self.cls = "Konlpy" => self.tag # None

\* The structured result of the instance for text.
Structured(text) == PosTagRawTextOf(self, text, TRUE)

\* The output path of each listed path.
OutputPaths == [k \in 1..Len(list_of_path) |-> list_of_path[k] \o suffix]

CorporaReturned == call.op = "pos_tag_and_write_corpora" /\ ~call.running

\* C3: on a configured instance, pos_tag_and_write_corpora visits every
\* path in order, writes path+suffix for each path that is a file, warns
\* once for each that is not, and does not raise.
C3_CorporaWritesEachExistingPath ==
    (CorporaReturned /\ Configured) =>
        /\ result.kind # "raised"
        /\ Len(existed) = Len(list_of_path)
        /\ written = Marked(OutputPaths, existed, TRUE)
        /\ Len(warned) = Len(Marked(OutputPaths, existed, FALSE))

\* C4: for every backend, on a configured instance,
\* pos_tag_raw_text(text, as_tuple_list=False) returns the structured
\* result rendered with the instance's separator.
C4_FlatIsRenderedStructured ==
    (call.op = "pos_tag_raw_text" /\ ~call.as_tuple_list /\ Configured) =>
        /\ result.kind = "value"
        /\ Structured(call.text).kind = "value"
        /\ result.flat = Render(Structured(call.text).tuples,
                                ConfiguredSeparator)

\* C5, as claimed: every backend hands the engine the whitespace-normalized
\* text.
C5_EveryBackendNormalizes ==
    (call.op = "pos_tag_raw_text" /\ engine_in # <<>>) =>
        IsNormalizationOf(call.text, engine_in[1])

\* C5, amended: PosTaggingSpacy hands the engine exactly one text, the
\* whitespace-normalized input; PosTaggingStanford and PosTaggingKonlpy hand
\* it the input as it is.
C5_OnlySpacyNormalizes ==
    (call.op = "pos_tag_raw_text" /\ engine_in # <<>>) =>
        IF self.cls = "Spacy"
        THEN /\ Len(engine_in) = 1
             /\ IsNormalizationOf(call.text, engine_in[1])
        ELSE engine_in[1] = call.text

\* A Spacy call on a text with a leading space and a run of two spaces,
\* which reached the engine changed.
C5_Witness ==
    /\ call.op = "pos_tag_raw_text"
    /\ self.cls = "Spacy"
    /\ result.kind = "value"
    /\ Len(call.text) = MaxLen
    /\ \E k \in 2..(Len(call.text) - 2) :
          call.text[k] = " " /\ call.text[k + 1] = " "
    /\ engine_in[1] # call.text
    /\ engine_in[1] # <<>>

\* C7: on a configured instance, pos_tag_file of an existing input writes
\* the flat encoding to output_path (a path other than the input's) and
\* returns nothing, or, without output_path, returns the structured
\* document and writes nothing; the input file is unchanged.
C7_FileWrittenOrReturned ==
    [][(call'.op = "pos_tag_file" /\ ops' = ops + 1 /\ Configured
          /\ isfile(fs, call'.input_path)
          /\ call'.output_path # call'.input_path) =>
          LET text == fs[call'.input_path]
              out  == call'.output_path
          IN  /\ fs'[call'.input_path] = text
              /\ IF out # None
                 THEN /\ result'.kind = "none"
                      /\ Structured(text).kind = "value"
                      /\ fs'[out] = Render(Structured(text).tuples,
                                           ConfiguredSeparator)
                      /\ \A p \in AllPaths \ {out} : fs'[p] = fs[p]
                 ELSE /\ result'.kind = "value"
                      /\ fs' = fs]_vars

\* C8: a construction with an unsupported language or without an engine
\* fails; one that returns leaves the engine and the separator set.
C8_ConstructedMeansInitialized ==
    status # "new" =>
        /\ (ctor.engine = "unavailable" => status = "failed")
        /\ (ctor.cls = "Stanford" /\ ctor.lang \notin {"en", "de", "fr"})
               => status = "failed"
        /\ status = "ready" =>
               /\ EngineAttrs \subseteq self.attrs
               /\ "separator" \in self.attrs

=============================================================================
